---------------------------- MODULE Spec2Model ----------------------------
(***************************************************************************)
(* A model of the ndfa library: regular patterns are compiled into an NDFA *)
(* over symbol ranges, the NDFA into a DFA, and the DFA is run by the      *)
(* matcher (matches.rs), by the tokenizer and by                           *)
(* AnnotatedStream::from_tokenizer (annotated_stream.rs).                  *)
(*                                                                         *)
(* Symbols are naturals (a countable alphabet whose successor is +1).      *)
(* An Option value is a sequence: <<>> is None and <<x>> is Some(x).       *)
(* A Range<usize> a..b is the pair <<a, b>> (half open).                    *)
(* A SymbolRange is the pair <<lo, hi>> (inclusive).                        *)
(***************************************************************************)
EXTENDS Integers, Sequences, FiniteSets, TLC

(***************************************************************************)
(* Bounds of the model.                                                    *)
(***************************************************************************)
MaxLen == 3
MaxPatterns == 2
MaxTokens == 3
MaxWord == 2
MaxPullsPastEnd == 2
MaxReadErrors == 1
MaxBeyond == 1

None == <<>>
Some(x) == <<x>>
is_some(o) == Len(o) = 1
unwrap(o) == o[1]

Min(S) == CHOOSE x \in S : \A y \in S : x <= y
Max(S) == CHOOSE x \in S : \A y \in S : y <= x

(***************************************************************************)
(* Pattern[S]: the recursive sum of the pattern combinators.               *)
(***************************************************************************)
MatchRange(lo, hi) == [kind |-> "MatchRange", lo |-> lo, hi |-> hi]
Epsilon == [kind |-> "Epsilon"]
Literal(s) == [kind |-> "Literal", symbols |-> s]
Concat(p, q) == [kind |-> "Concat", p |-> p, q |-> q]
Alt(p, q) == [kind |-> "Alt", p |-> p, q |-> q]
\* max is None for an unbounded repetition.
Repeat(p, min, max) == [kind |-> "Repeat", p |-> p, min |-> min, max |-> max]
repeat_forever(p, min) == Repeat(p, min, None)

(***************************************************************************)
(* Ndfa: states are 0 .. count_states-1; state s keeps its transitions in  *)
(* trans[s+1] (a sequence of <<lo, hi, target>>, in insertion order), its   *)
(* epsilon transitions in eps[s+1] and its optional output in              *)
(* output[s+1].  A new Ndfa has the start state 0 only.                     *)
(***************************************************************************)
NewNdfa == [trans |-> << <<>> >>, eps |-> << {} >>, output |-> << None >>]

count_states(nd) == Len(nd.trans)

\* Grows the machine so that states 0 .. n-1 exist.
RECURSIVE EnsureStates(_, _)
EnsureStates(nd, n) ==
    IF Len(nd.trans) >= n THEN nd
    ELSE EnsureStates([trans |-> Append(nd.trans, <<>>),
                       eps |-> Append(nd.eps, {}),
                       output |-> Append(nd.output, None)], n)

add_transition(nd, state, range, new_state) ==
    LET g == EnsureStates(nd, Max({state, new_state}) + 1)
    IN  [g EXCEPT !.trans[state + 1] = Append(@, <<range[1], range[2], new_state>>)]

add_epsilon(nd, state, new_state) ==
    LET g == EnsureStates(nd, Max({state, new_state}) + 1)
    IN  [g EXCEPT !.eps[state + 1] = @ \cup {new_state}]

set_output_symbol(nd, state, new_output_symbol) ==
    LET g == EnsureStates(nd, state + 1)
    IN  [g EXCEPT !.output[state + 1] = Some(new_output_symbol)]

output_symbol_for_state(m, state) == m.output[state + 1]


(***************************************************************************)
(* Pattern::compile(pattern, ndfa, from_state): adds the pattern to the    *)
(* machine starting at from_state and returns the machine and the state    *)
(* reached when the pattern has matched.  Fresh states take the id         *)
(* count_states().                                                         *)
(***************************************************************************)
RECURSIVE compile(_, _, _)
RECURSIVE compile_times(_, _, _, _)
RECURSIVE compile_literal(_, _, _, _)
RECURSIVE compile_optional(_, _, _, _, _)

\* A chain of single-symbol ranges, one per symbol from index i on.
compile_literal(symbols, i, nd, from) ==
    IF i > Len(symbols) THEN [nd |-> nd, end |-> from]
    ELSE LET t == count_states(nd)
         IN  compile_literal(symbols, i + 1,
                 add_transition(nd, from, <<symbols[i], symbols[i]>>, t), t)

\* n copies of p one after the other.
compile_times(p, nd, from, n) ==
    IF n = 0 THEN [nd |-> nd, end |-> from]
    ELSE LET r == compile(p, nd, from)
         IN  compile_times(p, r.nd, r.end, n - 1)

\* k optional copies of p, each of which may be left for the state target.
compile_optional(p, nd, cur, k, target) ==
    IF k = 0 THEN [nd |-> add_epsilon(nd, cur, target), end |-> target]
    ELSE LET r == compile(p, add_epsilon(nd, cur, target), cur)
         IN  compile_optional(p, r.nd, r.end, k - 1, target)

compile(p, nd, from) ==
    CASE p.kind = "Epsilon" -> [nd |-> nd, end |-> from]
      [] p.kind = "MatchRange" ->
            LET t == count_states(nd)
            IN  [nd |-> add_transition(nd, from, <<p.lo, p.hi>>, t), end |-> t]
      [] p.kind = "Literal" -> compile_literal(p.symbols, 1, nd, from)
      [] p.kind = "Concat" ->
            LET r == compile(p.p, nd, from)
            IN  compile(p.q, r.nd, r.end)
      [] p.kind = "Alt" ->
            \* two epsilon edges fork from from_state, two join the branches
            LET s1 == count_states(nd)
                r1 == compile(p.p, add_epsilon(nd, from, s1), s1)
                s2 == count_states(r1.nd)
                r2 == compile(p.q, add_epsilon(r1.nd, from, s2), s2)
                t  == count_states(r2.nd)
            IN  [nd |-> add_epsilon(add_epsilon(r2.nd, r1.end, t), r2.end, t),
                 end |-> t]
      [] p.kind = "Repeat" ->
            LET m == compile_times(p.p, nd, from, p.min)
            IN  IF is_some(p.max)
                THEN LET t == count_states(m.nd)
                         k == IF unwrap(p.max) > p.min
                              THEN unwrap(p.max) - p.min ELSE 0
                     IN  compile_optional(p.p, EnsureStates(m.nd, t + 1),
                                          m.end, k, t)
                ELSE \* loop: m -> L, L -p-> e, e -> L (back edge), L -> t
                     LET L    == count_states(m.nd)
                         body == compile(p.p, add_epsilon(m.nd, m.end, L), L)
                         back == add_epsilon(body.nd, body.end, L)
                         t    == count_states(back)
                     IN  [nd |-> add_epsilon(back, L, t), end |-> t]

(***************************************************************************)
(* Ndfa::fix_overlapping_ranges: every range label is cut at the           *)
(* breakpoints (the low bounds and the successors of the high bounds of    *)
(* the labels), so that any two labels are equal or disjoint; each piece   *)
(* keeps the target of the transition it was cut from.                     *)
(***************************************************************************)
AllTransitions(nd) ==
    UNION { { nd.trans[s][i] : i \in 1..Len(nd.trans[s]) } : s \in 1..Len(nd.trans) }

Breakpoints(nd) ==
    { tr[1] : tr \in AllTransitions(nd) } \cup { tr[2] + 1 : tr \in AllTransitions(nd) }

\* The pieces of lo..hi between consecutive breakpoints, in order.
RECURSIVE SplitRange(_, _, _, _)
SplitRange(lo, hi, target, bps) ==
    LET inside == { b \in bps : lo < b /\ b <= hi }
    IN  IF inside = {} THEN << <<lo, hi, target>> >>
        ELSE LET b == Min(inside)
             IN  << <<lo, b - 1, target>> >> \o SplitRange(b, hi, target, bps)

RECURSIVE SplitRow(_, _, _)
SplitRow(row, i, bps) ==
    IF i > Len(row) THEN <<>>
    ELSE SplitRange(row[i][1], row[i][2], row[i][3], bps) \o SplitRow(row, i + 1, bps)

fix_overlapping_ranges(nd) ==
    LET bps == Breakpoints(nd)
    IN  [nd EXCEPT !.trans = [s \in 1..Len(nd.trans) |-> SplitRow(nd.trans[s], 1, bps)]]

(***************************************************************************)
(* The epsilon closure of a set of states.                                 *)
(***************************************************************************)
RECURSIVE closure(_, _)
closure(nd, S) ==
    LET next == S \cup UNION { nd.eps[s + 1] : s \in S }
    IN  IF next = S THEN S ELSE closure(nd, next)

(***************************************************************************)
(* DfaCompiler::build: the subset construction.  sets[i] is the set of     *)
(* NDFA states that DFA state i-1 stands for; a set met for the first time *)
(* takes the next free id.                                                 *)
(***************************************************************************)
RangeLess(a, b) == a[1] < b[1] \/ (a[1] = b[1] /\ a[2] < b[2])

RECURSIVE SortRanges(_)
SortRanges(S) ==
    IF S = {} THEN <<>>
    ELSE LET m == CHOOSE x \in S : \A y \in S \ {x} : RangeLess(x, y)
         IN  <<m>> \o SortRanges(S \ {m})

Labels(nd, S) ==
    UNION { { <<nd.trans[s + 1][i][1], nd.trans[s + 1][i][2]>> :
                i \in 1..Len(nd.trans[s + 1]) } : s \in S }

Targets(nd, S, R) ==
    UNION { { nd.trans[s + 1][i][3] :
                i \in { j \in 1..Len(nd.trans[s + 1]) :
                          <<nd.trans[s + 1][j][1], nd.trans[s + 1][j][2]>> = R } } :
            s \in S }

IndexOf(sets, T) ==
    IF \E i \in 1..Len(sets) : sets[i] = T
    THEN CHOOSE i \in 1..Len(sets) : sets[i] = T
    ELSE 0

\* The transitions of the DFA state for S, label by label, allocating ids.
RECURSIVE ExpandLabels(_, _, _, _, _, _)
ExpandLabels(nd, S, labels, k, sets, row) ==
    IF k > Len(labels) THEN [sets |-> sets, row |-> row]
    ELSE LET T     == closure(nd, Targets(nd, S, labels[k]))
             found == IndexOf(sets, T)
             sets2 == IF found = 0 THEN Append(sets, T) ELSE sets
             id    == (IF found = 0 THEN Len(sets2) ELSE found) - 1
         IN  ExpandLabels(nd, S, labels, k + 1, sets2,
                          Append(row, <<labels[k][1], labels[k][2], id>>))

\* The lowest-ordered output of the members of S, if any has one.
MergedOutput(nd, S) ==
    LET outs == { unwrap(nd.output[s + 1]) : s \in { x \in S : is_some(nd.output[x + 1]) } }
    IN  IF outs = {} THEN None ELSE Some(Min(outs))

RECURSIVE BuildFrom(_, _, _, _, _)
BuildFrom(nd, sets, trans, output, i) ==
    IF i > Len(sets) THEN [trans |-> trans, output |-> output, sets |-> sets]
    ELSE LET e == ExpandLabels(nd, sets[i], SortRanges(Labels(nd, sets[i])), 1, sets, <<>>)
         IN  BuildFrom(nd, e.sets, Append(trans, e.row),
                       Append(output, MergedOutput(nd, sets[i])), i + 1)

DfaCompiler_build(nd) == BuildFrom(nd, << closure(nd, {0}) >>, <<>>, <<>>, 1)

(***************************************************************************)
(* prepare_to_match for a state machine: the DFA that DfaCompiler builds.  *)
(* A SymbolRangeDfa keeps, for state s, the sorted transitions trans[s+1]  *)
(* and the optional output output[s+1]; it starts in state 0.              *)
(***************************************************************************)
prepare_ndfa(nd) ==
    LET built == DfaCompiler_build(nd)
    IN  [trans |-> built.trans, output |-> built.output]

\* Mutant: preparing a prepared DFA rebuilds it without its outputs.
prepare_dfa_drops_outputs(d) ==
    [d EXCEPT !.output = [state \in 1..Len(d.output) |-> None]]

\* prepare_to_match for a SymbolRangeDfa: the DFA itself.
prepare_dfa(d) == d

(***************************************************************************)
(* Tokenizer (tokenizer.rs): an ordered list of <<pattern, output>>.       *)
(***************************************************************************)
Tokenizer_new == <<>>

add_pattern(tk, pattern, output) == Append(tk, <<pattern, output>>)

\* The loop of to_ndfa: every pattern is compiled from state 0 and the state
\* it ends in is given the pattern's output.
RECURSIVE compile_patterns(_, _, _)
compile_patterns(tk, i, nd) ==
    IF i > Len(tk) THEN nd
    ELSE LET r == compile(tk[i][1], nd, 0)
         IN  compile_patterns(tk, i + 1, set_output_symbol(r.nd, r.end, tk[i][2]))

\* Mutant: the call of fix_overlapping_ranges is left out.
to_ndfa_no_fix(tk) == compile_patterns(tk, 1, NewNdfa)

to_ndfa(tk) == fix_overlapping_ranges(compile_patterns(tk, 1, NewNdfa))

prepare_tokenizer(tk) == prepare_ndfa(to_ndfa(tk))

(***************************************************************************)
(* The matcher's states (pattern_matcher): More(state, count, accept),     *)
(* Accept(count, output) and Reject.  accept is the last accepting prefix  *)
(* seen, Some(<<count, output>>).                                          *)
(***************************************************************************)
Reject == [tag |-> "Reject"]
Accept(count, output) == [tag |-> "Accept", count |-> count, output |-> output]

\* Entering state with count symbols consumed: an output of the state is
\* recorded as the last accepting prefix.
More(dfa, state, count, accept) ==
    [tag |-> "More", state |-> state, count |-> count,
     accept |-> IF is_some(output_symbol_for_state(dfa, state))
                THEN Some(<<count, unwrap(output_symbol_for_state(dfa, state))>>)
                ELSE accept]

dfa_start(dfa) == More(dfa, 0, 0, None)

finish(this_state) ==
    IF is_some(this_state.accept)
    THEN Accept(unwrap(this_state.accept)[1], unwrap(this_state.accept)[2])
    ELSE Reject

\* Binary search of the sorted, disjoint transitions row[l..h] for the range
\* that holds symbol: Some(target) or None.
RECURSIVE find_transition(_, _, _, _)
find_transition(row, symbol, l, h) ==
    IF l > h THEN None
    ELSE LET mid == (l + h) \div 2
         IN  IF row[mid][1] <= symbol /\ symbol <= row[mid][2] THEN Some(row[mid][3])
             ELSE IF row[mid][2] < symbol THEN find_transition(row, symbol, mid + 1, h)
             ELSE find_transition(row, symbol, l, mid - 1)

next(dfa, this_state, symbol) ==
    LET row == dfa.trans[this_state.state + 1]
        to  == find_transition(row, symbol, 1, Len(row))
    IN  IF is_some(to)
        THEN More(dfa, unwrap(to), this_state.count + 1, this_state.accept)
        ELSE finish(this_state)

\* pattern_matcher::match_pattern: runs the matcher from this_state over the
\* symbols of source after the first i, to Accept or Reject.
RECURSIVE match_pattern(_, _, _, _)
match_pattern(dfa, this_state, source, i) ==
    IF this_state.tag # "More" THEN this_state
    ELSE IF i < Len(source)
         THEN match_pattern(dfa, next(dfa, this_state, source[i + 1]), source, i + 1)
         ELSE finish(this_state)

(***************************************************************************)
(* matches_symbol_range (matches.rs).  reader is the number of symbols the *)
(* symbol reader has handed out; next_symbol returns None at the end.      *)
(***************************************************************************)
next_symbol(source, reader) ==
    IF reader < Len(source) THEN Some(source[reader + 1]) ELSE None

\* Mutant: the loop is left at the first accepting prefix.
matches_loop_body_first_accept(dfa, this_state, next_char) ==
    IF is_some(next_char) /\ ~is_some(this_state.accept)
    THEN next(dfa, this_state, unwrap(next_char))
    ELSE finish(this_state)

\* Mutant: a symbol that has no transition rejects, whatever was accepted.
matches_loop_body_reject_on_miss(dfa, this_state, next_char) ==
    IF is_some(next_char)
    THEN IF next(dfa, this_state, unwrap(next_char)).tag = "More"
         THEN next(dfa, this_state, unwrap(next_char))
         ELSE Reject
    ELSE finish(this_state)

\* Mutant: the end of the input does not finish the matcher.
matches_loop_body_ignores_end(dfa, this_state, next_char) ==
    IF is_some(next_char)
    THEN next(dfa, this_state, unwrap(next_char))
    ELSE this_state

\* One turn of `while let More(this_state) = current_state`.
matches_loop_body(dfa, this_state, next_char) ==
    IF is_some(next_char)
    THEN next(dfa, this_state, unwrap(next_char))
    ELSE finish(this_state)

\* Mutant: a match of no symbols is reported as no match.
matches_result_nonempty(state) ==
    IF state.tag = "Accept" /\ state.count > 0 THEN Some(state.count) ELSE None

\* Mutant: a rejected match is reported as a match of no symbols.
matches_result_reject_is_zero(state) ==
    IF state.tag = "Accept" THEN Some(state.count) ELSE Some(0)

\* `if let Accept(count, _) = current_state { Some(count) } else { None }`
matches_result(state) ==
    IF state.tag = "Accept" THEN Some(state.count) ELSE None

\* reader.to_vec(): the symbols the reader still holds, read until None.
RECURSIVE to_vec(_, _)
to_vec(src, rd) ==
    IF is_some(next_symbol(src, rd))
    THEN <<unwrap(next_symbol(src, rd))>> \o to_vec(src, rd + 1)
    ELSE <<>>

(***************************************************************************)
(* The prepared tokenizer that from_tokenizer drives: a DFA and a position *)
(* in the source.  next_symbol returns None at the end of the source;      *)
(* otherwise it runs the matcher from the position and, on a match, moves  *)
(* the position past the matched symbols and returns the output.           *)
(***************************************************************************)
at_end_of_reader(source, position) == position >= Len(source)

Tokenizer_next_symbol(dfa, source, position) ==
    IF at_end_of_reader(source, position)
    THEN [output |-> None, position |-> position]
    ELSE LET m == match_pattern(dfa, dfa_start(dfa), source, position)
         IN  IF m.tag = "Accept"
             THEN [output |-> Some(m.output), position |-> position + m.count]
             ELSE [output |-> None, position |-> position]

skip_input(source, position) ==
    IF position < Len(source) THEN position + 1 ELSE position

(***************************************************************************)
(* One turn of the loop of AnnotatedStream::from_tokenizer.  st holds the  *)
(* loop's variables: tokens, pos, the tokenizer's position and whether the *)
(* loop has been left.                                                     *)
(***************************************************************************)
\* Mutant: `pos = final_pos` is left out after a token.
from_tokenizer_turn_keep_pos(dfa, original, st) ==
    LET nt        == Tokenizer_next_symbol(dfa, original, st.srcpos)
        final_pos == nt.position
    IN  IF is_some(nt.output)
        THEN [tokens |-> Append(st.tokens, <<unwrap(nt.output), <<st.pos, final_pos>>>>),
              pos |-> st.pos, srcpos |-> final_pos, done |-> FALSE]
        ELSE IF ~at_end_of_reader(original, final_pos)
        THEN [tokens |-> st.tokens, pos |-> st.pos + 1,
              srcpos |-> skip_input(original, final_pos), done |-> FALSE]
        ELSE [tokens |-> st.tokens, pos |-> st.pos, srcpos |-> final_pos, done |-> TRUE]

\* Mutant: `pos += 1` is left out when a symbol is skipped.
from_tokenizer_turn_skip_keeps_pos(dfa, original, st) ==
    LET nt        == Tokenizer_next_symbol(dfa, original, st.srcpos)
        final_pos == nt.position
    IN  IF is_some(nt.output)
        THEN [tokens |-> Append(st.tokens, <<unwrap(nt.output), <<st.pos, final_pos>>>>),
              pos |-> final_pos, srcpos |-> final_pos, done |-> FALSE]
        ELSE IF ~at_end_of_reader(original, final_pos)
        THEN [tokens |-> st.tokens, pos |-> st.pos,
              srcpos |-> skip_input(original, final_pos), done |-> FALSE]
        ELSE [tokens |-> st.tokens, pos |-> st.pos, srcpos |-> final_pos, done |-> TRUE]

\* Mutant: after a token, pos moves on by one symbol instead of to final_pos.
from_tokenizer_turn_pos_plus_one(dfa, original, st) ==
    LET nt        == Tokenizer_next_symbol(dfa, original, st.srcpos)
        final_pos == nt.position
    IN  IF is_some(nt.output)
        THEN [tokens |-> Append(st.tokens, <<unwrap(nt.output), <<st.pos, final_pos>>>>),
              pos |-> st.pos + 1, srcpos |-> final_pos, done |-> FALSE]
        ELSE IF ~at_end_of_reader(original, final_pos)
        THEN [tokens |-> st.tokens, pos |-> st.pos + 1,
              srcpos |-> skip_input(original, final_pos), done |-> FALSE]
        ELSE [tokens |-> st.tokens, pos |-> st.pos, srcpos |-> final_pos, done |-> TRUE]

\* Mutant: `tokenizer.skip_input()` is left out when a symbol is skipped.
from_tokenizer_turn_no_skip_input(dfa, original, st) ==
    LET nt        == Tokenizer_next_symbol(dfa, original, st.srcpos)
        final_pos == nt.position
    IN  IF is_some(nt.output)
        THEN [tokens |-> Append(st.tokens, <<unwrap(nt.output), <<st.pos, final_pos>>>>),
              pos |-> final_pos, srcpos |-> final_pos, done |-> FALSE]
        ELSE IF ~at_end_of_reader(original, final_pos)
        THEN [tokens |-> st.tokens, pos |-> st.pos + 1,
              srcpos |-> final_pos, done |-> FALSE]
        ELSE [tokens |-> st.tokens, pos |-> st.pos, srcpos |-> final_pos, done |-> TRUE]

\* Mutant: a failed attempt skips two symbols instead of one.
from_tokenizer_turn_skip_two(dfa, original, st) ==
    LET nt        == Tokenizer_next_symbol(dfa, original, st.srcpos)
        final_pos == nt.position
    IN  IF is_some(nt.output)
        THEN [tokens |-> Append(st.tokens, <<unwrap(nt.output), <<st.pos, final_pos>>>>),
              pos |-> final_pos, srcpos |-> final_pos, done |-> FALSE]
        ELSE IF ~at_end_of_reader(original, final_pos)
        THEN [tokens |-> st.tokens, pos |-> Min({st.pos + 2, Len(original)}),
              srcpos |-> skip_input(original, skip_input(original, final_pos)),
              done |-> FALSE]
        ELSE [tokens |-> st.tokens, pos |-> st.pos, srcpos |-> final_pos, done |-> TRUE]

from_tokenizer_turn(dfa, original, st) ==
    LET nt        == Tokenizer_next_symbol(dfa, original, st.srcpos)
        final_pos == nt.position
    IN  IF is_some(nt.output)
        THEN [tokens |-> Append(st.tokens, <<unwrap(nt.output), <<st.pos, final_pos>>>>),
              pos |-> final_pos, srcpos |-> final_pos, done |-> FALSE]
        ELSE IF ~at_end_of_reader(original, final_pos)
        THEN [tokens |-> st.tokens, pos |-> st.pos + 1,
              srcpos |-> skip_input(original, final_pos), done |-> FALSE]
        ELSE [tokens |-> st.tokens, pos |-> st.pos, srcpos |-> final_pos, done |-> TRUE]

(***************************************************************************)
(* AnnotatedStream queries.  tokenized is a sequence of                    *)
(* <<output, <<start, end>>>>; indexes are counted from 0 as in the code.  *)
(***************************************************************************)
Token(location, output) == [location |-> location, output |-> output]

token_at(tokenized, index) ==
    Token(tokenized[index + 1][2], tokenized[index + 1][1])

Ok(index) == [ok |-> TRUE, index |-> index]
Err(index) == [ok |-> FALSE, index |-> index]

\* slice::binary_search_by on location.start: Ok(i) for a token that starts
\* at position (any of them when several do), else Err(the insertion point).
binary_search_by_start(tokenized, position) ==
    LET hits == { i \in 0..(Len(tokenized) - 1) : tokenized[i + 1][2][1] = position }
    IN  IF hits # {} THEN { Ok(i) : i \in hits }
        ELSE { Err(Cardinality({ i \in 0..(Len(tokenized) - 1) :
                                   tokenized[i + 1][2][1] < position })) }

\* Mutant: the preceding token is taken when its end is at the position.
find_token_index_end_inclusive(tokenized, position, found) ==
    IF found.ok THEN Ok(found.index)
    ELSE IF found.index = 0 THEN Err(0)
    ELSE IF tokenized[found.index][2][2] >= position THEN Ok(found.index - 1)
    ELSE Err(found.index)

\* Mutant: a position after every token gives the index past the insertion point.
find_token_index_past_end(tokenized, position, found) ==
    IF found.ok THEN Ok(found.index)
    ELSE IF found.index = 0 THEN Err(0)
    ELSE IF tokenized[found.index][2][2] > position THEN Ok(found.index - 1)
    ELSE Err(found.index + 1)

\* found is the outcome of the binary search.
find_token_index(tokenized, position, found) ==
    IF found.ok THEN Ok(found.index)
    ELSE IF found.index = 0 THEN Err(0)
    ELSE IF tokenized[found.index][2][2] > position THEN Ok(found.index - 1)
    ELSE Err(found.index)

find_token(tokenized, position, found) ==
    LET found_index == find_token_index(tokenized, position, found)
    IN  IF found_index.ok THEN Some(token_at(tokenized, found_index.index)) ELSE None

\* Mutant: a token that starts at the end of the searched range is kept.
RECURSIVE find_end_index_inclusive(_, _, _)
find_end_index_inclusive(tokenized, end_index, search_end) ==
    IF end_index >= Len(tokenized) THEN end_index
    ELSE IF tokenized[end_index + 1][2][1] > search_end THEN end_index
    ELSE find_end_index_inclusive(tokenized, end_index + 1, search_end)

\* The loop that moves end_index to the first token that starts at or after
\* the end of the searched range.
RECURSIVE find_end_index(_, _, _)
find_end_index(tokenized, end_index, search_end) ==
    IF end_index >= Len(tokenized) THEN end_index
    ELSE IF tokenized[end_index + 1][2][1] >= search_end THEN end_index
    ELSE find_end_index(tokenized, end_index + 1, search_end)

read_tokens_in_range(tokenized, search_location, found) ==
    LET start_index == find_token_index(tokenized, search_location[1], found).index
        end_index   == find_end_index(tokenized, start_index, search_location[2])
    IN  [i \in 1..(end_index - start_index) |-> token_at(tokenized, start_index + i - 1)]

\* What a call hands back: a slice, or a panic in place of a return.
Returned(slice) == [tag |-> "Return", slice |-> slice]
Panicked == [tag |-> "Panic"]

\* Mutant: a range the input does not hold is cut down to the input.
input_for_range_truncates(original, range) ==
    Returned(SubSeq(original, range[1] + 1, Min({range[2], Len(original)})))

\* &self.original[range]: the index panics when the range is inverted or
\* ends past the end of the slice.
input_for_range(original, range) ==
    IF range[1] <= range[2] /\ range[2] <= Len(original)
    THEN Returned(SubSeq(original, range[1] + 1, range[2]))
    ELSE Panicked

input_for_token(original, token) == input_for_range(original, token.location)

input_len(original) == Len(original)

output_len(tokenized) == Len(tokenized)

(***************************************************************************)
(* Annotator (annotated_stream.rs): the stream being built and the start   *)
(* position of the open range.                                             *)
(***************************************************************************)
Annotator_new == [original |-> <<>>, tokenized |-> <<>>, start_pos |-> 0]

push_input(a, symbol) == [a EXCEPT !.original = Append(@, symbol)]

append_input(a, input) == [a EXCEPT !.original = @ \o input]

\* Mutant: start_pos is not moved to the end of the input.
token_keeps_start_pos(a, t) ==
    LET pos == Len(a.original)
    IN  [a EXCEPT !.tokenized = Append(@, <<t, <<a.start_pos, pos>>>>)]

token(a, t) ==
    LET pos == Len(a.original)
    IN  [a EXCEPT !.tokenized = Append(@, <<t, <<a.start_pos, pos>>>>),
                  !.start_pos = pos]

\* Mutant: skip records nothing and moves nothing.
skip_does_nothing(a) == a

skip(a) == [a EXCEPT !.start_pos = Len(a.original)]

Annotator_finish(a) == [original |-> a.original, tokenized |-> a.tokenized]

(***************************************************************************)
(* Symbol readers (symbol_reader.rs).  A reader over a vector or a string  *)
(* is an iterator position; a ByteSymbolReader pulls a std::io::Bytes,     *)
(* whose next() is Some(Ok(byte)), Some(Err(e)) when the read fails, or    *)
(* None at the end of the source.                                          *)
(***************************************************************************)
Chars_next_symbol(source, position) ==
    IF position < Len(source) THEN Some(source[position + 1]) ELSE None

IoOk(byte) == [ok |-> TRUE, byte |-> byte]
IoErr == [ok |-> FALSE, byte |-> 0]

\* Bytes::next(); fails says whether this read of the source fails.
Bytes_next(source, position, fails) ==
    IF fails THEN Some(IoErr)
    ELSE IF position < Len(source) THEN Some(IoOk(source[position + 1]))
    ELSE None

\* `if let Some(Ok(sym)) = self.bytes.next() { Some(sym.clone()) } else { None }`
ByteSymbolReader_next_symbol(next_byte) ==
    IF is_some(next_byte) /\ unwrap(next_byte).ok
    THEN Some(unwrap(next_byte).byte)
    ELSE None

\* No reader: kind, symbols handed out, what next_symbol returned, failed reads.
NoReader == [kind |-> "none", position |-> 0, returned |-> <<>>, failed |-> 0]

(***************************************************************************)
(* DfaCompiler::build step by step: the closure grows a set until it stops *)
(* growing, the worklist expands one state set at a time, label by label.  *)
(***************************************************************************)
\* Mutant: the states already visited are not kept.
closure_step_forgets(nd, S) == UNION { nd.eps[s + 1] : s \in S }

\* One round of the closure: S and the states one epsilon transition away.
closure_step(nd, S) == S \cup UNION { nd.eps[s + 1] : s \in S }

NoCompiler ==
    [phase |-> "idle", nd |-> NewNdfa, sets |-> <<>>, trans |-> <<>>, output |-> <<>>,
     i |-> 0, labels |-> <<>>, row |-> <<>>, closing |-> {}]

(***************************************************************************)
(* The patterns and inputs the model draws from.  Symbol 0 is ' ', 1 and 2 *)
(* are 'a' and 'b' (or the digits '1' and '2'), 3 and 4 are further digits.*)
(***************************************************************************)
AllAs == repeat_forever(Literal(<<1>>), 1)
AllBs == repeat_forever(Literal(<<2>>), 1)
Digit == repeat_forever(MatchRange(1, 4), 1)
Space == repeat_forever(Literal(<<0>>), 1)
Abb   == Literal(<<1, 2, 2>>)

Pool == << <<AllAs, 1>>, <<AllBs, 2>>, <<Digit, 0>>, <<Space, 1>>,
           <<Abb, 3>>, <<Epsilon, 2>>, <<Literal(<<>>), 0>> >>

Alphabet == 0..2

\* "12 42 13", "aaaa", "abbb", "bbaaa"
ScenarioInputs == { <<1, 2, 0, 4, 2, 0, 1, 3>>, <<1, 1, 1, 1>>, <<1, 2, 2, 2>>,
                    <<2, 2, 1, 1, 1>> }

Inputs == UNION { [1..n -> Alphabet] : n \in 0..MaxLen } \cup ScenarioInputs

(***************************************************************************)
(* The state.                                                              *)
(***************************************************************************)
VARIABLES
    mode,           \* what the caller is doing
    patterns,       \* Tokenizer.patterns
    dfa,            \* the prepared SymbolRangeDfa, Some(dfa) once prepared
    source,         \* matches: the source being matched
    reader,         \* matches: symbols handed out by the symbol reader
    current_state,  \* matches_symbol_range: current_state
    result,         \* matches: the value returned
    original,       \* from_tokenizer: the captured input
    loop,           \* from_tokenizer: tokens, pos, the tokenizer's position
    skipped,        \* from_tokenizer: the positions the loop skipped (history)
    query,          \* the last query made of the annotated stream
    annotator,      \* the Annotator: stream.original, stream.tokenized, start_pos
    symbol_reader,  \* a symbol reader being pulled: its kind, position and history
    compiler,       \* DfaCompiler::build in progress: worklist and closure
    pulls           \* calls of symbol_reader.next_symbol() made by matches_symbol_range

vars == <<mode, patterns, dfa, source, reader, current_state, result, original,
          loop, skipped, query, annotator, symbol_reader, compiler, pulls>>

Idle == [tag |-> "Idle"]
NoLoop == [tokens |-> <<>>, pos |-> 0, srcpos |-> 0, done |-> FALSE]
NoQuery == [op |-> "none"]

Init ==
    /\ mode = "build"
    /\ patterns = Tokenizer_new
    /\ dfa = None
    /\ source = <<>>
    /\ reader = 0
    /\ current_state = Idle
    /\ result = None
    /\ original = <<>>
    /\ loop = NoLoop
    /\ skipped = {}
    /\ query = NoQuery
    /\ annotator = Annotator_new
    /\ symbol_reader = NoReader
    /\ compiler = NoCompiler
    /\ pulls = 0

\* Tokenizer::add_pattern
AddPattern ==
    /\ mode = "build"
    /\ Len(patterns) < MaxPatterns
    /\ \E i \in 1..Len(Pool) : patterns' = add_pattern(patterns, Pool[i][1], Pool[i][2])
    /\ UNCHANGED <<pulls, compiler, symbol_reader, annotator, mode, dfa, source, reader, current_state, result, original, loop, skipped, query>>

\* (&tokenizer).prepare_to_match()
PrepareToMatch ==
    /\ mode = "build"
    /\ dfa' = Some(prepare_tokenizer(patterns))
    /\ mode' = "ready"
    /\ UNCHANGED <<pulls, compiler, symbol_reader, annotator, patterns, source, reader, current_state, result, original, loop, skipped, query>>

\* matches(source, dfa): up to the first test of the loop
MatchesBegin ==
    /\ mode = "ready"
    /\ \E src \in Inputs : source' = src
    /\ reader' = 0
    /\ current_state' = dfa_start(prepare_dfa(unwrap(dfa)))
    /\ pulls' = 0
    /\ mode' = "matching"
    /\ UNCHANGED <<compiler, symbol_reader, annotator, patterns, dfa, result, original, loop, skipped, query>>

\* one turn of the loop of matches_symbol_range
MatchesStep ==
    /\ mode = "matching"
    /\ current_state.tag = "More"
    /\ current_state' = matches_loop_body(prepare_dfa(unwrap(dfa)), current_state,
                                          next_symbol(source, reader))
    /\ reader' = IF reader < Len(source) THEN reader + 1 ELSE reader
    /\ pulls' = pulls + 1
    /\ UNCHANGED <<compiler, symbol_reader, annotator, mode, patterns, dfa, source, result, original, loop, skipped, query>>

\* the loop is left and matches returns
MatchesReturn ==
    /\ mode = "matching"
    /\ current_state.tag # "More"
    /\ result' = matches_result(current_state)
    /\ mode' = "matched"
    /\ UNCHANGED <<pulls, compiler, symbol_reader, annotator, patterns, dfa, source, reader, current_state, original, loop, skipped, query>>

\* AnnotatedStream::from_tokenizer(&dfa, reader): up to the loop
FromTokenizerBegin ==
    /\ mode = "ready"
    /\ \E input \in Inputs : source' = input
    /\ original' = to_vec(source', 0)
    /\ reader' = Len(source')
    /\ loop' = NoLoop
    /\ mode' = "tokenizing"
    /\ UNCHANGED <<pulls, compiler, symbol_reader, annotator, patterns, dfa, current_state, result, skipped, query>>

\* one turn of the loop of from_tokenizer; the stream is returned when the
\* loop is left.  A run that has recorded more tokens than the input has
\* symbols is not followed further.
FromTokenizerLoop ==
    /\ mode = "tokenizing"
    /\ Len(loop.tokens) <= Len(original)
    /\ loop' = from_tokenizer_turn(unwrap(dfa), original, loop)
    /\ mode' = IF loop'.done THEN "annotated" ELSE "tokenizing"
    /\ skipped' = IF ~loop'.done /\ loop'.tokens = loop.tokens
                  THEN skipped \cup {loop.pos} ELSE skipped
    /\ UNCHANGED <<pulls, compiler, symbol_reader, annotator, patterns, dfa, source, reader, current_state, result, original, query>>

\* annotated.find_token(position)
FindToken ==
    /\ mode = "annotated"
    /\ query = NoQuery
    /\ \E position \in 0..Len(original) :
         \E found \in binary_search_by_start(loop.tokens, position) :
            query' = [op |-> "find_token", position |-> position,
                      result |-> find_token(loop.tokens, position, found)]
    /\ UNCHANGED <<pulls, compiler, symbol_reader, annotator, mode, patterns, dfa, source, reader, current_state, result, original, loop, skipped>>

\* The bounds of the ranges searched: within the input and past its end.
SearchBounds(symbols) == 0..(Len(symbols) + MaxBeyond)

\* annotated.read_tokens_in_range(start..end)
ReadTokensInRange ==
    /\ mode = "annotated"
    /\ query = NoQuery
    /\ \E start \in SearchBounds(original) : \E end \in SearchBounds(original) :
         \E found \in binary_search_by_start(loop.tokens, start) :
            query' = [op |-> "read_tokens_in_range", range |-> <<start, end>>,
                      result |-> read_tokens_in_range(loop.tokens, <<start, end>>, found)]
    /\ UNCHANGED <<pulls, compiler, symbol_reader, annotator, mode, patterns, dfa, source, reader, current_state, result, original, loop, skipped>>

\* annotated.input_for_range(start..end)
InputForRange ==
    /\ mode = "annotated"
    /\ query = NoQuery
    /\ \E start \in SearchBounds(original) : \E end \in SearchBounds(original) :
            query' = [op |-> "input_for_range", range |-> <<start, end>>,
                      result |-> input_for_range(original, <<start, end>>)]
    /\ UNCHANGED <<pulls, compiler, symbol_reader, annotator, mode, patterns, dfa, source, reader, current_state, result, original, loop, skipped>>

\* annotated.input_for_token(&token), for a token of the stream
InputForToken ==
    /\ mode = "annotated"
    /\ query = NoQuery
    /\ \E index \in 0..(Len(loop.tokens) - 1) :
            query' = [op |-> "input_for_token", token |-> token_at(loop.tokens, index),
                      result |-> input_for_token(original, token_at(loop.tokens, index))]
    /\ UNCHANGED <<pulls, compiler, symbol_reader, annotator, mode, patterns, dfa, source, reader, current_state, result, original, loop, skipped>>

Next ==
    \/ AddPattern
    \/ PrepareToMatch
    \/ MatchesBegin
    \/ MatchesStep
    \/ MatchesReturn
    \/ FromTokenizerBegin
    \/ FromTokenizerLoop
    \/ FindToken
    \/ ReadTokensInRange
    \/ InputForRange
    \/ InputForToken

Spec == Init /\ [][Next]_vars

(***************************************************************************)
(* The manual annotator: a caller that builds a stream with an Annotator   *)
(* and then queries it.                                                    *)
(***************************************************************************)
TokenTypes == 0..1
AnnotatorSymbols == 0..1

InitAnnotator ==
    /\ mode = "annotating"
    /\ patterns = Tokenizer_new
    /\ dfa = None
    /\ source = <<>>
    /\ reader = 0
    /\ current_state = Idle
    /\ result = None
    /\ original = <<>>
    /\ loop = NoLoop
    /\ skipped = {}
    /\ query = NoQuery
    /\ annotator = Annotator_new
    /\ symbol_reader = NoReader
    /\ compiler = NoCompiler
    /\ pulls = 0

\* annotator.push_input(symbol)
PushInput ==
    /\ mode = "annotating"
    /\ Len(annotator.original) < MaxLen
    /\ \E symbol \in AnnotatorSymbols : annotator' = push_input(annotator, symbol)
    /\ UNCHANGED <<pulls, compiler, symbol_reader, mode, patterns, dfa, source, reader, current_state, result, original,
                   loop, skipped, query>>

\* annotator.append_input(input), with input of two symbols or none
AppendInput ==
    /\ mode = "annotating"
    /\ \E input \in {<<>>} \cup [1..2 -> AnnotatorSymbols] :
          /\ Len(annotator.original) + Len(input) <= MaxLen
          /\ annotator' = append_input(annotator, input)
    /\ UNCHANGED <<pulls, compiler, symbol_reader, mode, patterns, dfa, source, reader, current_state, result, original,
                   loop, skipped, query>>

\* annotator.token(t)
AnnotatorToken ==
    /\ mode = "annotating"
    /\ Len(annotator.tokenized) < MaxTokens
    /\ \E t \in TokenTypes : annotator' = token(annotator, t)
    /\ UNCHANGED <<pulls, compiler, symbol_reader, mode, patterns, dfa, source, reader, current_state, result, original,
                   loop, skipped, query>>

\* annotator.skip(); skipped remembers the positions of the discarded range
AnnotatorSkip ==
    /\ mode = "annotating"
    /\ annotator' = skip(annotator)
    /\ skipped' = skipped \cup (annotator.start_pos..(Len(annotator.original) - 1))
    /\ UNCHANGED <<pulls, compiler, symbol_reader, mode, patterns, dfa, source, reader, current_state, result, original,
                   loop, query>>

\* annotator.finish(): the stream is handed to the caller
AnnotatorFinish ==
    /\ mode = "annotating"
    /\ original' = Annotator_finish(annotator).original
    /\ loop' = [tokens |-> Annotator_finish(annotator).tokenized,
                pos |-> annotator.start_pos, srcpos |-> annotator.start_pos, done |-> TRUE]
    /\ mode' = "annotated"
    /\ UNCHANGED <<pulls, compiler, symbol_reader, patterns, dfa, source, reader, current_state, result, skipped, query,
                   annotator>>

NextAnnotator ==
    \/ PushInput
    \/ AppendInput
    \/ AnnotatorToken
    \/ AnnotatorSkip
    \/ AnnotatorFinish
    \/ FindToken

SpecAnnotator == InitAnnotator /\ [][NextAnnotator]_vars

(***************************************************************************)
(* A caller that creates a reader from a vector, a string or a byte source *)
(* and pulls it.  returned is the history of what next_symbol returned.    *)
(***************************************************************************)
ReaderKinds == {"vec", "str", "bytes"}

InitReader ==
    /\ mode = "reading"
    /\ patterns = Tokenizer_new
    /\ dfa = None
    /\ source \in UNION { [1..n -> Alphabet] : n \in 0..MaxLen }
    /\ reader = 0
    /\ current_state = Idle
    /\ result = None
    /\ original = <<>>
    /\ loop = NoLoop
    /\ skipped = {}
    /\ query = NoQuery
    /\ annotator = Annotator_new
    /\ \E kind \in ReaderKinds : symbol_reader = [NoReader EXCEPT !.kind = kind]
    /\ compiler = NoCompiler
    /\ pulls = 0

Pulled(value, consumed) ==
    [symbol_reader EXCEPT !.returned = Append(@, value),
                          !.position = IF consumed THEN @ + 1 ELSE @]

\* reader.next_symbol() on the Iter of a vector
VecNextSymbol ==
    /\ mode = "reading"
    /\ symbol_reader.kind = "vec"
    /\ Len(symbol_reader.returned) < Len(source) + MaxPullsPastEnd
    /\ symbol_reader' = Pulled(next_symbol(source, symbol_reader.position),
                               is_some(next_symbol(source, symbol_reader.position)))
    /\ UNCHANGED <<pulls, compiler, mode, patterns, dfa, source, reader, current_state, result, original,
                   loop, skipped, query, annotator>>

\* reader.next_symbol() on the Chars of a string
StrNextSymbol ==
    /\ mode = "reading"
    /\ symbol_reader.kind = "str"
    /\ Len(symbol_reader.returned) < Len(source) + MaxPullsPastEnd
    /\ symbol_reader' = Pulled(Chars_next_symbol(source, symbol_reader.position),
                               is_some(Chars_next_symbol(source, symbol_reader.position)))
    /\ UNCHANGED <<pulls, compiler, mode, patterns, dfa, source, reader, current_state, result, original,
                   loop, skipped, query, annotator>>

\* reader.next_symbol() on a ByteSymbolReader; the read may fail
BytesNextSymbol ==
    /\ mode = "reading"
    /\ symbol_reader.kind = "bytes"
    /\ Len(symbol_reader.returned) < Len(source) + MaxPullsPastEnd
    /\ \E fails \in BOOLEAN :
          /\ fails => symbol_reader.failed < MaxReadErrors
          /\ LET next_byte == Bytes_next(source, symbol_reader.position, fails)
                 value     == ByteSymbolReader_next_symbol(next_byte)
             IN  symbol_reader' =
                     [Pulled(value, is_some(next_byte) /\ unwrap(next_byte).ok)
                        EXCEPT !.failed = IF fails THEN @ + 1 ELSE @]
    /\ UNCHANGED <<pulls, compiler, mode, patterns, dfa, source, reader, current_state, result, original,
                   loop, skipped, query, annotator>>

NextReader ==
    \/ VecNextSymbol
    \/ StrNextSymbol
    \/ BytesNextSymbol

SpecReader == InitReader /\ [][NextReader]_vars

(***************************************************************************)
(* Preparing a tokenizer step by step.  The patterns include repetitions   *)
(* from zero times of bodies that match the empty input, whose NDFAs have  *)
(* cycles of epsilon transitions.                                          *)
(***************************************************************************)
OptionalA == Alt(Epsilon, Literal(<<1>>))

PreparePool ==
    << <<repeat_forever(Epsilon, 0), 0>>,
       <<Repeat(Epsilon, 0, Some(2)), 1>>,
       <<repeat_forever(OptionalA, 0), 1>>,
       <<Repeat(OptionalA, 0, Some(1)), 2>>,
       <<Repeat(Alt(Epsilon, Epsilon), 0, Some(2)), 0>>,
       <<Concat(repeat_forever(Epsilon, 0), Literal(<<2>>)), 3>>,
       <<repeat_forever(repeat_forever(Literal(<<2>>), 0), 0), 0>>,
       <<AllAs, 2>>,
       <<Digit, 3>> >>

\* The tokenizers prepared: none, one pattern of the pool, or one of a few
\* pairs that share the start state.
PrepareTokenizers ==
    { Tokenizer_new }
      \cup { add_pattern(Tokenizer_new, PreparePool[i][1], PreparePool[i][2]) :
               i \in 1..Len(PreparePool) }
      \cup { << PreparePool[1], PreparePool[8] >>,
             << PreparePool[3], PreparePool[9] >>,
             << PreparePool[2], PreparePool[1] >>,
             << PreparePool[7], PreparePool[5] >> }

\* prepare_to_match is called: the NDFA is built and the closure of {0} begins
InitPrepare ==
    /\ mode = "compiling"
    /\ patterns \in PrepareTokenizers
    /\ dfa = None
    /\ source = <<>>
    /\ reader = 0
    /\ current_state = Idle
    /\ result = None
    /\ original = <<>>
    /\ loop = NoLoop
    /\ skipped = {}
    /\ query = NoQuery
    /\ annotator = Annotator_new
    /\ symbol_reader = NoReader
    /\ compiler = [NoCompiler EXCEPT !.phase = "closure", !.nd = to_ndfa(patterns),
                                     !.closing = {0}]
    /\ pulls = 0

\* the closure takes in the states one epsilon transition further
ClosureGrow ==
    /\ compiler.phase = "closure"
    /\ closure_step(compiler.nd, compiler.closing) # compiler.closing
    /\ compiler' = [compiler EXCEPT !.closing = closure_step(compiler.nd, compiler.closing)]
    /\ UNCHANGED <<pulls, mode, patterns, dfa, source, reader, current_state, result, original,
                   loop, skipped, query, annotator, symbol_reader>>

\* the closure has stopped growing: it is the start set (i = 0), or the
\* target of the label being expanded, looked up or given the next free id
ClosureDone ==
    /\ compiler.phase = "closure"
    /\ closure_step(compiler.nd, compiler.closing) = compiler.closing
    /\ LET T     == compiler.closing
           found == IndexOf(compiler.sets, T)
           sets2 == IF found = 0 THEN Append(compiler.sets, T) ELSE compiler.sets
           id    == (IF found = 0 THEN Len(sets2) ELSE found) - 1
       IN  compiler' =
             IF compiler.i = 0
             THEN [compiler EXCEPT !.phase = "expand", !.sets = <<T>>, !.i = 1,
                                   !.labels = SortRanges(Labels(compiler.nd, T)),
                                   !.row = <<>>, !.closing = {}]
             ELSE [compiler EXCEPT !.phase = "expand", !.sets = sets2,
                                   !.row = Append(@, <<Head(compiler.labels)[1],
                                                       Head(compiler.labels)[2], id>>),
                                   !.labels = Tail(@), !.closing = {}]
    /\ UNCHANGED <<pulls, mode, patterns, dfa, source, reader, current_state, result, original,
                   loop, skipped, query, annotator, symbol_reader>>

\* the next label of the state set being expanded: its targets are closed
ExpandLabel ==
    /\ compiler.phase = "expand"
    /\ compiler.labels # <<>>
    /\ compiler' = [compiler EXCEPT
                      !.phase = "closure",
                      !.closing = Targets(compiler.nd, compiler.sets[compiler.i],
                                          Head(compiler.labels))]
    /\ UNCHANGED <<pulls, mode, patterns, dfa, source, reader, current_state, result, original,
                   loop, skipped, query, annotator, symbol_reader>>

\* every label of the state set is expanded: its row and output are kept and
\* the next pending set is taken
FinishState ==
    /\ compiler.phase = "expand"
    /\ compiler.labels = <<>>
    /\ compiler.i < Len(compiler.sets)
    /\ compiler' = [compiler EXCEPT
                      !.trans = Append(@, compiler.row),
                      !.output = Append(@, MergedOutput(compiler.nd,
                                                        compiler.sets[compiler.i])),
                      !.i = @ + 1,
                      !.labels = SortRanges(Labels(compiler.nd,
                                                   compiler.sets[compiler.i + 1])),
                      !.row = <<>>]
    /\ UNCHANGED <<pulls, mode, patterns, dfa, source, reader, current_state, result, original,
                   loop, skipped, query, annotator, symbol_reader>>

\* the worklist is empty: the DFA is returned
FinishBuild ==
    /\ compiler.phase = "expand"
    /\ compiler.labels = <<>>
    /\ compiler.i = Len(compiler.sets)
    /\ compiler' = [compiler EXCEPT
                      !.phase = "done",
                      !.trans = Append(@, compiler.row),
                      !.output = Append(@, MergedOutput(compiler.nd,
                                                        compiler.sets[compiler.i])),
                      !.row = <<>>]
    /\ dfa' = Some([trans |-> compiler'.trans, output |-> compiler'.output])
    /\ mode' = "ready"
    /\ UNCHANGED <<pulls, patterns, source, reader, current_state, result, original,
                   loop, skipped, query, annotator, symbol_reader>>

NextPrepare ==
    \/ ClosureGrow
    \/ ClosureDone
    \/ ExpandLabel
    \/ FinishState
    \/ FinishBuild

\* The build runs on the caller's thread until it returns.
SpecPrepare == InitPrepare /\ [][NextPrepare]_vars /\ WF_vars(NextPrepare)

(***************************************************************************)
(* matches(source, &tokenizer) on its own: the tokenizer is prepared, the  *)
(* reader is created and the loop of matches_symbol_range runs on the      *)
(* caller's thread until it is left, so every enabled step is taken.       *)
(***************************************************************************)
MatchTokenizers ==
    {Tokenizer_new}
        \cup { <<Pool[i]>> : i \in 1..Len(Pool) }
        \cup { <<Pool[i], Pool[j]>> : i, j \in 1..Len(Pool) }

InitMatches ==
    /\ mode = "matching"
    /\ patterns \in MatchTokenizers
    /\ dfa = Some(prepare_tokenizer(patterns))
    /\ source \in Inputs
    /\ reader = 0
    /\ current_state = dfa_start(prepare_dfa(unwrap(dfa)))
    /\ pulls = 0
    /\ result = None
    /\ original = <<>>
    /\ loop = NoLoop
    /\ skipped = {}
    /\ query = NoQuery
    /\ annotator = Annotator_new
    /\ symbol_reader = NoReader
    /\ compiler = NoCompiler

NextMatches ==
    \/ MatchesStep
    \/ MatchesReturn

SpecMatches == InitMatches /\ [][NextMatches]_vars /\ WF_vars(NextMatches)

(***************************************************************************)
(* What the properties are stated in.                                      *)
(***************************************************************************)
Prefix(w, n) == SubSeq(w, 1, n)
Suffix(w, n) == SubSeq(w, n + 1, Len(w))

\* The DFA states that the first k symbols of w lead to from state 0.
RECURSIVE Reach(_, _, _)
Reach(d, w, k) ==
    IF k = 0 THEN {0}
    ELSE UNION { { d.trans[q + 1][i][3] :
                     i \in { j \in 1..Len(d.trans[q + 1]) :
                               d.trans[q + 1][j][1] <= w[k] /\ w[k] <= d.trans[q + 1][j][2] } } :
                 q \in Reach(d, w, k - 1) }

\* The lengths of the prefixes of w that the DFA follows to an accepting state.
AcceptedPrefixes(d, w) ==
    { k \in 0..Len(w) : \E q \in Reach(d, w, k) : is_some(d.output[q + 1]) }

\* The language of a pattern: whether pattern p matches the whole of word w.
RECURSIVE Lang(_, _)
RECURSIVE LangTimes(_, _, _)
LangTimes(p, w, n) ==
    IF n = 0 THEN w = <<>>
    ELSE \E i \in 0..Len(w) : Lang(p, Prefix(w, i)) /\ LangTimes(p, Suffix(w, i), n - 1)

Lang(p, w) ==
    CASE p.kind = "Epsilon" -> w = <<>>
      [] p.kind = "MatchRange" -> Len(w) = 1 /\ p.lo <= w[1] /\ w[1] <= p.hi
      [] p.kind = "Literal" -> w = p.symbols
      [] p.kind = "Concat" ->
            \E i \in 0..Len(w) : Lang(p.p, Prefix(w, i)) /\ Lang(p.q, Suffix(w, i))
      [] p.kind = "Alt" -> Lang(p.p, w) \/ Lang(p.q, w)
      [] p.kind = "Repeat" ->
            \E n \in p.min..(IF is_some(p.max) THEN unwrap(p.max) ELSE Max({p.min, Len(w)})) :
                LangTimes(p.p, w, n)

\* The patterns of the tokenizer that match the whole of w.
Accepting(tk, w) == { i \in 1..Len(tk) : Lang(tk[i][1], w) }

\* The lengths of the prefixes of w that some pattern of the tokenizer matches.
PatternPrefixes(tk, w) == { k \in 0..Len(w) : Accepting(tk, Prefix(w, k)) # {} }

\* matches_symbol_range as a function of the source: the loop run to its end.
RECURSIVE matches_loop(_, _, _, _)
matches_loop(d, state, src, rd) ==
    IF state.tag = "More"
    THEN matches_loop(d, matches_loop_body(d, state, next_symbol(src, rd)), src,
                      IF rd < Len(src) THEN rd + 1 ELSE rd)
    ELSE state

matches_symbol_range(d, src) == matches_result(matches_loop(d, dfa_start(d), src, 0))

(***************************************************************************)
(* C1: longest match.  When matches returns for a source of which the DFA  *)
(* follows some prefix to an accepting state, it returns Some(n) with n    *)
(* the length of the longest such prefix.                                  *)
(***************************************************************************)
C1_LongestMatch ==
    (mode = "matched" /\ AcceptedPrefixes(unwrap(dfa), source) # {})
        => result = Some(Max(AcceptedPrefixes(unwrap(dfa), source)))

\* 'a'+ and 'b'+ on "bbaaa": the first accepting prefix has length 1, the
\* longest has length 2.
C1_Witness ==
    /\ mode = "matched"
    /\ patterns = << <<AllAs, 1>>, <<AllBs, 2>> >>
    /\ source = <<2, 2, 1, 1, 1>>
    /\ result = Some(2)
    /\ AcceptedPrefixes(unwrap(dfa), source) = {1, 2}

(***************************************************************************)
(* C9: matches returns Some(n) exactly when some pattern matches a prefix  *)
(* of the source (the empty prefix included), None otherwise, and n is at  *)
(* most the length of the source.                                          *)
(***************************************************************************)
C9_SomeIffPrefixAccepted ==
    mode = "matched" =>
        /\ is_some(result) <=> PatternPrefixes(patterns, source) # {}
        /\ is_some(result) => unwrap(result) \in PatternPrefixes(patterns, source)
        /\ is_some(result) => unwrap(result) <= Len(source)

\* A source whose only accepted prefix is the empty one.
C9_Witness ==
    /\ mode = "matched"
    /\ source # <<>>
    /\ result = Some(0)
    /\ PatternPrefixes(patterns, source) = {0}

(***************************************************************************)
(* C10: monotonicity.  When matches returns Some(n) for a source, then for *)
(* every prefix u of the source on which matches returns Some(m), m <= n;  *)
(* and when every prefix u that a pattern matches whole is concerned,      *)
(* matches(u) = Some(Len(u)) <= n.                                         *)
(***************************************************************************)
C10_Monotone ==
    mode = "matched" =>
        \A k \in 0..Len(source) :
            LET mu == matches_symbol_range(unwrap(dfa), Prefix(source, k))
            IN  /\ is_some(mu) => (is_some(result) /\ unwrap(mu) <= unwrap(result))
                /\ Accepting(patterns, Prefix(source, k)) # {} => mu = Some(k)

\* "a" and "aa" are both matched by 'a'+, and matches grows from 1 to 2.
C10_Witness ==
    /\ mode = "matched"
    /\ patterns = << <<AllAs, 1>> >>
    /\ source = <<1, 1, 0>>
    /\ result = Some(2)
    /\ matches_symbol_range(unwrap(dfa), <<1>>) = Some(1)

(***************************************************************************)
(* C2: priority.  When the matcher accepts a prefix that two or more       *)
(* patterns of the tokenizer match, the output it reports is the lowest of *)
(* the outputs of those patterns.                                          *)
(***************************************************************************)
C2_PriorityMin ==
    (mode \in {"matching", "matched"} /\ current_state.tag = "Accept") =>
        LET W == Accepting(patterns, Prefix(source, current_state.count))
        IN  Cardinality(W) >= 2 =>
                current_state.output = Min({ patterns[i][2] : i \in W })

TokStart(t) == t[2][1]
TokEnd(t) == t[2][2]

(***************************************************************************)
(* C3: in the stream that from_tokenizer returns, every token range is     *)
(* non-empty and lies within [0, original.len()], and each token ends at   *)
(* or before the start of the next (so the tokens are sorted by start and  *)
(* do not overlap).                                                        *)
(***************************************************************************)
C3_StreamInvariants ==
    mode = "annotated" =>
        /\ \A i \in 1..Len(loop.tokens) :
              /\ 0 <= TokStart(loop.tokens[i])
              /\ TokStart(loop.tokens[i]) < TokEnd(loop.tokens[i])
              /\ TokEnd(loop.tokens[i]) <= Len(original)
        /\ \A i \in 1..(Len(loop.tokens) - 1) :
              /\ TokEnd(loop.tokens[i]) <= TokStart(loop.tokens[i + 1])
              /\ TokStart(loop.tokens[i]) < TokStart(loop.tokens[i + 1])

\* A returned stream of several tokens with a gap between two of them.
C3_Witness ==
    /\ mode = "annotated"
    /\ Len(loop.tokens) >= 2
    /\ \E i \in 1..(Len(loop.tokens) - 1) :
          TokEnd(loop.tokens[i]) < TokStart(loop.tokens[i + 1])

(***************************************************************************)
(* C4: skip recovery.  A turn of the loop of from_tokenizer taken at a     *)
(* position pos before the end of the input, where the DFA accepts no      *)
(* prefix of the rest of the input, records no token, stays in the loop    *)
(* and leaves both pos and the tokenizer's position at pos + 1.            *)
(***************************************************************************)
C4_SkipOne ==
    [][ ( /\ mode = "tokenizing"
          /\ loop.pos < Len(original)
          /\ AcceptedPrefixes(unwrap(dfa), Suffix(original, loop.pos)) = {} )
        => ( /\ mode' = "tokenizing"
             /\ original' = original
             /\ loop'.tokens = loop.tokens
             /\ loop'.pos = loop.pos + 1
             /\ loop'.srcpos = loop.pos + 1 ) ]_vars

\* Position 0 was skipped and the next attempt is about to start at 1.
C4_Witness ==
    /\ mode = "tokenizing"
    /\ skipped = {0}
    /\ loop.tokens = <<>>
    /\ loop.pos = 1
    /\ loop.srcpos = 1
    /\ Len(original) > 1

(***************************************************************************)
(* C5: round trip.  original (and what read_input() reads) is the sequence *)
(* of symbols the reader held, and the inputs of the tokens of the         *)
(* returned stream, concatenated in order, are original without the        *)
(* skipped positions.                                                      *)
(***************************************************************************)
RECURSIVE ConcatTokenInputs(_, _, _)
ConcatTokenInputs(orig, tokenized, i) ==
    IF i > Len(tokenized) THEN <<>>
    ELSE input_for_token(orig, token_at(tokenized, i - 1)).slice
             \o ConcatTokenInputs(orig, tokenized, i + 1)

\* orig without the symbols at the (0-based) positions in gone, from i on.
RECURSIVE Without(_, _, _)
Without(orig, gone, i) ==
    IF i >= Len(orig) THEN <<>>
    ELSE (IF i \in gone THEN <<>> ELSE <<orig[i + 1]>>) \o Without(orig, gone, i + 1)

C5_RoundTrip ==
    /\ mode \in {"tokenizing", "annotated"} =>
          /\ original = source
          /\ to_vec(original, 0) = source
    /\ mode = "annotated" =>
          ConcatTokenInputs(original, loop.tokens, 1) = Without(original, skipped, 0)

\* A returned stream with two tokens and one skipped symbol.
C5_Witness ==
    /\ mode = "annotated"
    /\ Len(loop.tokens) = 2
    /\ Cardinality(skipped) = 1
    /\ Len(ConcatTokenInputs(original, loop.tokens, 1)) = Len(original) - 1

(***************************************************************************)
(* C6: find_token(p), for p from 0 to original.len(), returns the token    *)
(* whose range holds p when there is one, and None otherwise.              *)
(***************************************************************************)
Holding(tokenized, p) ==
    { i \in 1..Len(tokenized) : TokStart(tokenized[i]) <= p /\ p < TokEnd(tokenized[i]) }

C6_FindToken ==
    query.op = "find_token" =>
        LET H == Holding(loop.tokens, query.position)
        IN  IF H # {}
            THEN \E i \in H : query.result = Some(Token(loop.tokens[i][2], loop.tokens[i][1]))
            ELSE query.result = None

DigitSpace == << <<Digit, 0>>, <<Space, 1>> >>
S1Input == <<1, 2, 0, 4, 2, 0, 1, 3>>
S1Tokens == << <<0, <<0, 2>>>>, <<1, <<2, 3>>>>, <<0, <<3, 5>>>>, <<1, <<5, 6>>>>,
               <<0, <<6, 8>>>> >>

\* find_token(4) on "12 42 13" is (Digit, 3..5).
C6_Witness ==
    /\ patterns = DigitSpace
    /\ original = S1Input
    /\ query = [op |-> "find_token", position |-> 4, result |-> Some(Token(<<3, 5>>, 0))]

(***************************************************************************)
(* C7: read_tokens_in_range(r) returns the run of tokens that begins at    *)
(* the token holding r.start (or, when no token holds it, at the first     *)
(* token that starts after r.start) and ends just before the first token   *)
(* whose start is at or after r.end; these are the tokens that start       *)
(* before r.end and end after r.start.                                     *)
(***************************************************************************)
FirstIndex(tokenized, P(_)) ==
    IF \E i \in 1..Len(tokenized) : P(tokenized[i])
    THEN Min({ i \in 1..Len(tokenized) : P(tokenized[i]) })
    ELSE Len(tokenized) + 1

C7_Expected(tokenized, r) ==
    LET H     == Holding(tokenized, r[1])
        After(t) == TokStart(t) > r[1]
        Past(t)  == TokStart(t) >= r[2]
        first == IF H # {} THEN Min(H) ELSE FirstIndex(tokenized, After)
        last  == FirstIndex(tokenized, Past)
    IN  [i \in 1..(last - first) |->
            Token(tokenized[first + i - 1][2], tokenized[first + i - 1][1])]

C7_RangeQuery ==
    query.op = "read_tokens_in_range" =>
        /\ query.result = C7_Expected(loop.tokens, query.range)
        /\ { query.result[i] : i \in 1..Len(query.result) }
             = { Token(t[2], t[1]) :
                   t \in { loop.tokens[i] : i \in { j \in 1..Len(loop.tokens) :
                             /\ TokStart(loop.tokens[j]) < query.range[2]
                             /\ TokEnd(loop.tokens[j]) > query.range[1] } } }

\* read_tokens_in_range(4..7) on "12 42 13" is the tokens 3..5, 5..6, 6..8.
C7_Witness ==
    /\ patterns = DigitSpace
    /\ original = S1Input
    /\ query.op = "read_tokens_in_range"
    /\ query.range = <<4, 7>>
    /\ query.result = << Token(<<3, 5>>, 0), Token(<<5, 6>>, 1), Token(<<6, 8>>, 0) >>

(***************************************************************************)
(* C8: with a digit-run pattern and a space-run pattern, the stream        *)
(* returned for an input of digits and spaces has one token per maximal    *)
(* run of digits or of spaces, in order and without gaps; "12 42 13" gives *)
(* Digit 0..2, Space 2..3, Digit 3..5, Space 5..6, Digit 6..8, with        *)
(* input_len 8 and output_len 5.                                           *)
(***************************************************************************)
RECURSIVE RunEnd(_, _)
RunEnd(w, i) ==
    IF i + 1 < Len(w) /\ ((w[i + 2] = 0) <=> (w[i + 1] = 0)) THEN RunEnd(w, i + 1) ELSE i + 1

RECURSIVE MaximalRuns(_, _)
MaximalRuns(w, i) ==
    IF i >= Len(w) THEN <<>>
    ELSE << <<IF w[i + 1] = 0 THEN 1 ELSE 0, <<i, RunEnd(w, i)>>>> >>
             \o MaximalRuns(w, RunEnd(w, i))

C11_EveryTurnProgresses ==
    [][ mode = "tokenizing" =>
          \/ /\ Len(loop'.tokens) = Len(loop.tokens) + 1
             /\ loop'.pos > loop.pos
             /\ loop'.pos <= Len(original)
          \/ /\ loop'.tokens = loop.tokens
             /\ loop'.pos = loop.pos + 1
             /\ loop'.pos <= Len(original)
             /\ mode' = "tokenizing"
          \/ /\ mode' = "annotated"
             /\ loop'.tokens = loop.tokens
             /\ loop.pos = Len(original) ]_vars

(***************************************************************************)
(* C12: the stream that Annotator::finish returns has token ranges sorted  *)
(* by start, each ending at or before the start of the next, and within    *)
(* [0, original.len()]; and start_pos <= original.len() in every state of  *)
(* the annotator.                                                          *)
(***************************************************************************)
C12_AnnotatorInvariants ==
    /\ annotator.start_pos <= Len(annotator.original)
    /\ mode = "annotated" =>
          /\ \A i \in 1..Len(loop.tokens) :
                /\ 0 <= TokStart(loop.tokens[i])
                /\ TokStart(loop.tokens[i]) <= TokEnd(loop.tokens[i])
                /\ TokEnd(loop.tokens[i]) <= Len(original)
          /\ \A i \in 1..(Len(loop.tokens) - 1) :
                /\ TokStart(loop.tokens[i]) <= TokStart(loop.tokens[i + 1])
                /\ TokEnd(loop.tokens[i]) <= TokStart(loop.tokens[i + 1])

\* push, token, push, skip, push, token, finish: two tokens around a gap.
C12_Witness ==
    /\ mode = "annotated"
    /\ Len(original) = 3
    /\ skipped = {1}
    /\ Len(loop.tokens) = 2
    /\ loop.tokens[1][2] = <<0, 1>>
    /\ loop.tokens[2][2] = <<2, 3>>

(***************************************************************************)
(* C13: no sequence of Annotator operations records a token with an empty  *)
(* range (token records the open range only when it is not empty).         *)
(***************************************************************************)
C13_NoEmptyToken ==
    \A i \in 1..Len(annotator.tokenized) :
        TokStart(annotator.tokenized[i]) < TokEnd(annotator.tokenized[i])

(***************************************************************************)
(* C14: skip moves start_pos to original.len() and changes neither         *)
(* original nor tokenized; push_input and append_input only add symbols at *)
(* the end of original; the skipped symbols lie in no token, so find_token *)
(* on them returns none.                                                   *)
(***************************************************************************)
C14_SkipFrame ==
    /\ [][ AnnotatorSkip =>
             /\ annotator'.start_pos = Len(annotator.original)
             /\ annotator'.original = annotator.original
             /\ annotator'.tokenized = annotator.tokenized ]_vars
    /\ [][ (PushInput \/ AppendInput) =>
             /\ annotator'.tokenized = annotator.tokenized
             /\ annotator'.start_pos = annotator.start_pos
             /\ Len(annotator'.original) >= Len(annotator.original)
             /\ Prefix(annotator'.original, Len(annotator.original)) = annotator.original ]_vars
    /\ [] ( /\ \A p \in skipped : Holding(annotator.tokenized, p) = {}
            /\ \A p \in skipped : \A i \in 1..Len(annotator.tokenized) :
                  TokStart(annotator.tokenized[i]) > p \/ TokEnd(annotator.tokenized[i]) <= p
            /\ (query.op = "find_token" /\ query.position \in skipped) =>
                  query.result = None )

\* a token, a skipped symbol, a token after it, and find_token on the gap.
C14_Witness ==
    /\ mode = "annotated"
    /\ skipped = {1}
    /\ loop.tokens = << <<0, <<0, 1>>>>, <<1, <<2, 3>>>> >>
    /\ query = [op |-> "find_token", position |-> 1, result |-> None]

(***************************************************************************)
(* C15: annotator equivalence.  Building by hand the stream from_tokenizer *)
(* returned (append each token's input and call token, append each skipped *)
(* region and call skip) gives the same original and tokenized, hence the  *)
(* same input_len, output_len, find_token and read_tokens_in_range.        *)
(***************************************************************************)
ManualToken(a, orig, tok) ==
    LET start == TokStart(tok)
        gap   == IF Len(a.original) < start
                 THEN skip(append_input(a, SubSeq(orig, Len(a.original) + 1, start)))
                 ELSE a
    IN  token(append_input(gap, SubSeq(orig, start + 1, TokEnd(tok))), tok[1])

RECURSIVE ManualTokens(_, _, _, _)
ManualTokens(a, orig, tokenized, i) ==
    IF i > Len(tokenized) THEN a
    ELSE ManualTokens(ManualToken(a, orig, tokenized[i]), orig, tokenized, i + 1)

Manual(orig, tokenized) ==
    LET a == ManualTokens(Annotator_new, orig, tokenized, 1)
    IN  Annotator_finish(
            IF Len(a.original) < Len(orig)
            THEN skip(append_input(a, SubSeq(orig, Len(a.original) + 1, Len(orig))))
            ELSE a)

C15_AnnotatorEquivalence ==
    mode = "annotated" =>
        LET m == Manual(original, loop.tokens)
        IN  /\ m.original = original
            /\ m.tokenized = loop.tokens
            /\ input_len(m.original) = input_len(original)
            /\ output_len(m.tokenized) = output_len(loop.tokens)
            /\ query.op = "find_token" =>
                  \A found \in binary_search_by_start(m.tokenized, query.position) :
                      find_token(m.tokenized, query.position, found) = query.result
            /\ query.op = "read_tokens_in_range" =>
                  /\ \A found \in binary_search_by_start(m.tokenized, query.range[1]) :
                        read_tokens_in_range(m.tokenized, query.range, found) = query.result
                  /\ input_for_range(m.original, query.range)
                        = input_for_range(original, query.range)

\* "12 42 13" built by hand has the five tokens of the tokenizer's stream.
C15_Witness ==
    /\ mode = "annotated"
    /\ patterns = DigitSpace
    /\ original = S1Input
    /\ Manual(original, loop.tokens).tokenized = S1Tokens
    /\ query = [op |-> "find_token", position |-> 5, result |-> Some(Token(<<5, 6>>, 1))]

(***************************************************************************)
(* C16: a tokenizer with no pattern can be prepared, and its DFA rejects   *)
(* everything: matches returns None for every input (the empty one too)    *)
(* and from_tokenizer returns a stream with no token whose original is the *)
(* input.                                                                  *)
(***************************************************************************)
C16_EmptyTokenizer ==
    patterns = Tokenizer_new =>
        /\ mode # "build" =>
              /\ is_some(dfa)
              /\ \A state \in 1..Len(unwrap(dfa).output) : unwrap(dfa).output[state] = None
        /\ mode = "matched" => result = None
        /\ mode = "annotated" => (loop.tokens = <<>> /\ original = source)

\* "12 42 13" read with no pattern: every symbol skipped, no token.
C16_Witness ==
    /\ patterns = Tokenizer_new
    /\ mode = "annotated"
    /\ original = S1Input
    /\ loop.tokens = <<>>
    /\ skipped = 0..7

(***************************************************************************)
(* C17: every prepared DFA is deterministic: in every state the outgoing   *)
(* ranges are non-empty (low <= high) and pairwise disjoint, so at most    *)
(* one transition applies to a symbol.                                     *)
(***************************************************************************)
Deterministic(d) ==
    \A state \in 1..Len(d.trans) :
        LET row == d.trans[state]
        IN  /\ \A i \in 1..Len(row) : row[i][1] <= row[i][2]
            /\ \A i, j \in 1..Len(row) :
                  i # j => (row[i][2] < row[j][1] \/ row[j][2] < row[i][1])
            /\ \A x \in 0..5 :
                  Cardinality({ i \in 1..Len(row) : row[i][1] <= x /\ x <= row[i][2] }) <= 1

NdfaStep(nd, S, x) ==
    closure(nd, UNION { { nd.trans[st + 1][i][3] :
                            i \in { j \in 1..Len(nd.trans[st + 1]) :
                                      /\ nd.trans[st + 1][j][1] <= x
                                      /\ x <= nd.trans[st + 1][j][2] } } : st \in S })

RECURSIVE NdfaRun(_, _, _, _)
NdfaRun(nd, S, w, i) ==
    IF i > Len(w) THEN S ELSE NdfaRun(nd, NdfaStep(nd, S, w[i]), w, i + 1)

NdfaOutputs(nd, S) == { nd.output[st + 1] : st \in S } \ {None}

FixSymbols == 0..5

FixedWell(raw, fixed) ==
    /\ Len(fixed.trans) = Len(raw.trans)
    /\ fixed.eps = raw.eps
    /\ fixed.output = raw.output
    /\ \A st \in 1..Len(fixed.trans) :
          LET row == fixed.trans[st]
              old == raw.trans[st]
          IN  /\ \A i, j \in 1..Len(row) :
                    \/ (row[i][1] = row[j][1] /\ row[i][2] = row[j][2])
                    \/ row[i][2] < row[j][1]
                    \/ row[j][2] < row[i][1]
              /\ \A i \in 1..Len(row) : row[i][1] <= row[i][2]
              /\ \A k \in 1..Len(old) : \A x \in old[k][1]..old[k][2] :
                    \E i \in 1..Len(row) :
                        /\ row[i][3] = old[k][3]
                        /\ row[i][1] <= x /\ x <= row[i][2]
                        /\ old[k][1] <= row[i][1] /\ row[i][2] <= old[k][2]
              /\ \A i \in 1..Len(row) : \E k \in 1..Len(old) :
                    /\ row[i][3] = old[k][3]
                    /\ old[k][1] <= row[i][1] /\ row[i][2] <= old[k][2]
    /\ \A n \in 0..MaxWord : \A w \in [1..n -> FixSymbols] :
          NdfaRun(fixed, closure(fixed, {0}), w, 1) = NdfaRun(raw, closure(raw, {0}), w, 1)

\* NDFAs built by hand whose ranges overlap within a state and across states.
HandBuilt ==
    { set_output_symbol(
          add_transition(add_transition(add_transition(NewNdfa, 0, <<1, 3>>, 1),
                                        0, <<2, 4>>, 2), 1, <<0, 5>>, 1), 2, 0),
      set_output_symbol(
          add_epsilon(add_transition(add_transition(NewNdfa, 0, <<0, 5>>, 1),
                                     1, <<3, 3>>, 0), 0, 1), 1, 1),
      NewNdfa }

C18_FixOverlappingRanges ==
    /\ mode = "ready" =>
          FixedWell(compile_patterns(patterns, 1, NewNdfa), to_ndfa(patterns))
    /\ (mode = "ready" /\ patterns = Tokenizer_new) =>
          \A nd \in HandBuilt : FixedWell(nd, fix_overlapping_ranges(nd))

\* 'a'+ with the digit run: 1..4 leaving state 0 is cut into 1..1 and 2..4.
C18_Witness ==
    /\ mode = "ready"
    /\ patterns = << <<AllAs, 1>>, <<Digit, 0>> >>
    /\ to_ndfa(patterns) # compile_patterns(patterns, 1, NewNdfa)
    /\ \E i \in 1..Len(to_ndfa(patterns).trans[1]) :
          /\ to_ndfa(patterns).trans[1][i][1] = 2
          /\ to_ndfa(patterns).trans[1][i][2] = 4

(***************************************************************************)
(* C19: a prepared DFA is immutable and reusable.  No operation changes    *)
(* the DFA once it is prepared; preparing it again returns it unchanged;   *)
(* and the result of a match is the result of matching the same input      *)
(* against the DFA once more, or against the tokenizer it was prepared     *)
(* from.                                                                   *)
(***************************************************************************)
C19_PreparedDfaReusable ==
    /\ [][ is_some(dfa) => dfa' = dfa ]_vars
    /\ [] ( is_some(dfa) =>
              /\ prepare_dfa(unwrap(dfa)) = unwrap(dfa)
              /\ prepare_tokenizer(patterns) = unwrap(dfa) )
    /\ [] ( mode = "matched" =>
              /\ result = matches_symbol_range(prepare_dfa(unwrap(dfa)), source)
              /\ result = matches_symbol_range(prepare_dfa(prepare_dfa(unwrap(dfa))), source)
              /\ result = matches_symbol_range(prepare_tokenizer(patterns), source) )
    /\ [] ( mode = "annotated" =>
              \A w \in {source, original} :
                  matches_symbol_range(unwrap(dfa), w)
                      = matches_symbol_range(prepare_tokenizer(patterns), w) )

\* "bbaaa" matched with 'a'+ and 'b'+ gave 2, after the DFA was prepared.
C19_Witness ==
    /\ mode = "matched"
    /\ patterns = << <<AllAs, 1>>, <<AllBs, 2>> >>
    /\ source = <<2, 2, 1, 1, 1>>
    /\ result = Some(2)
    /\ prepare_dfa(unwrap(dfa)) = unwrap(dfa)

(***************************************************************************)
(* C20: a reader made from a vector, a string or a byte source returns the *)
(* symbols of the source in order, each once, and then None; once it has   *)
(* returned None it returns None on every later call.                      *)
(***************************************************************************)
C20_ReaderOneShot ==
    mode = "reading" =>
        /\ \A i \in 1..Len(symbol_reader.returned) :
              symbol_reader.returned[i]
                  = (IF i <= Len(source) THEN Some(source[i]) ELSE None)
        /\ \A i, j \in 1..Len(symbol_reader.returned) :
              (i < j /\ symbol_reader.returned[i] = None) =>
                  symbol_reader.returned[j] = None

(***************************************************************************)
(* C21: preparing repetitions from zero times of bodies that match the     *)
(* empty input ends: although the NDFA has cycles of epsilon transitions,  *)
(* every closure stops growing and the worklist empties; the DFA returned  *)
(* is the one DfaCompiler::build describes.                                *)
(***************************************************************************)
EpsilonCycle(nd) ==
    \E st \in 0..(Len(nd.eps) - 1) :
        st \in closure(nd, nd.eps[st + 1])

C21_PrepareTerminates ==
    /\ <>(compiler.phase = "done")
    /\ [] ( compiler.phase = "done" =>
              /\ mode = "ready"
              /\ unwrap(dfa) = prepare_tokenizer(patterns)
              /\ Deterministic(unwrap(dfa))
              /\ Len(unwrap(dfa).trans) <= 2 ^ Len(compiler.nd.trans)
              /\ compiler.sets[1] = closure(compiler.nd, {0})
              /\ \A a, b \in 1..Len(compiler.sets) :
                    compiler.sets[a] = compiler.sets[b] => a = b )
    /\ [] ( compiler.phase = "closure" =>
              compiler.closing \subseteq 0..(Len(compiler.nd.trans) - 1) )

\* (epsilon | 'a')* is prepared: its NDFA has a cycle of epsilon transitions.
C21_Witness ==
    /\ compiler.phase = "done"
    /\ patterns = << <<repeat_forever(OptionalA, 0), 1>> >>
    /\ EpsilonCycle(compiler.nd)
    /\ unwrap(dfa).output[1] = Some(1)

(***************************************************************************)
(* C22: where each attempt of from_tokenizer starts.  While tokenizing,    *)
(* the driver's pos equals the tokenizer's source position.  A turn at pos *)
(* where the DFA accepts some prefix of original[pos..] records a token    *)
(* pos..pos+n, n the longest accepted prefix, and the next attempt starts  *)
(* at pos + n, however far the matcher read; a turn where it accepts none  *)
(* records nothing and the next attempt starts at pos + 1.                 *)
(***************************************************************************)
\* The number of symbols of w the matcher follows before it stops.
LookAhead(d, w) == Max({ k \in 0..Len(w) : Reach(d, w, k) # {} })

C22_Turn ==
    LET ap == AcceptedPrefixes(unwrap(dfa), Suffix(original, loop.pos))
    IN  IF loop.pos >= Len(original)
        THEN loop'.done /\ loop'.tokens = loop.tokens
        ELSE IF ap # {}
        THEN /\ Len(loop'.tokens) = Len(loop.tokens) + 1
             /\ loop'.tokens[Len(loop'.tokens)][2] = <<loop.pos, loop.pos + Max(ap)>>
             /\ SubSeq(loop'.tokens, 1, Len(loop.tokens)) = loop.tokens
             /\ loop'.pos = loop.pos + Max(ap)
             /\ loop'.srcpos = loop'.pos
        ELSE /\ loop'.tokens = loop.tokens
             /\ loop'.pos = loop.pos + 1
             /\ loop'.srcpos = loop'.pos

C22_NextAttemptStart ==
    /\ [](mode = "tokenizing" => loop.pos = loop.srcpos)
    /\ [][(mode = "tokenizing" /\ loop' # loop) => C22_Turn]_vars

\* "a+" and "abb" on "aba": the matcher reads two symbols, the token is 0..1,
\* the attempt at 1 reads "ba" and fails, and the third attempt starts at 2.
C22_Witness ==
    /\ mode = "tokenizing"
    /\ patterns = << <<AllAs, 1>>, <<Abb, 3>> >>
    /\ original = <<1, 2, 1>>
    /\ LookAhead(unwrap(dfa), original) = 2
    /\ loop.tokens = << <<1, <<0, 1>>>> >>
    /\ loop.pos = 2
    /\ loop.srcpos = 2

(***************************************************************************)
(* C23: the tokens of a returned stream are longest matches.  For every    *)
(* token (o, s..e) the matcher run on original[s..] accepts exactly e - s  *)
(* symbols, the longest prefix the DFA accepts there, with output o; and   *)
(* at every position that no token covers the matcher finds no match and   *)
(* the DFA accepts no prefix.                                              *)
(***************************************************************************)
Covered(tokens, p) ==
    \E i \in 1..Len(tokens) : tokens[i][2][1] <= p /\ p < tokens[i][2][2]

C23_TokensAreLongestMatches ==
    mode = "annotated" =>
        LET d == unwrap(dfa)
        IN  /\ \A i \in 1..Len(loop.tokens) :
                  LET s == loop.tokens[i][2][1]
                      e == loop.tokens[i][2][2]
                      m == matches_loop(d, dfa_start(d), Suffix(original, s), 0)
                  IN  /\ m.tag = "Accept"
                      /\ m.count = e - s
                      /\ m.output = loop.tokens[i][1]
                      /\ e - s = Max(AcceptedPrefixes(d, Suffix(original, s)))
            /\ \A p \in 0..(Len(original) - 1) :
                  ~Covered(loop.tokens, p) =>
                      /\ matches_symbol_range(d, Suffix(original, p)) = None
                      /\ AcceptedPrefixes(d, Suffix(original, p)) = {}

\* "b+" and "abb" on "ab": the attempt at 0 reads to the end of the input and
\* fails, and the match at 1 is still found.
C23_Witness ==
    /\ mode = "annotated"
    /\ patterns = << <<AllBs, 2>>, <<Abb, 3>> >>
    /\ original = <<1, 2>>
    /\ LookAhead(unwrap(dfa), original) = 2
    /\ loop.tokens = << <<2, <<1, 2>>>> >>
    /\ skipped = {0}

(***************************************************************************)
(* C24: the loop of matches_symbol_range ends on every finite input.  It   *)
(* starts in the start state with nothing consumed; a turn either consumes *)
(* one symbol and stays in More, or leaves More because the reader is      *)
(* exhausted or the symbol has no transition, as Accept of the longest     *)
(* accepted prefix of what was consumed if there is one and as Reject      *)
(* otherwise; the reader is pulled at most Len(source) + 1 times, and      *)
(* matches returns.                                                        *)
(***************************************************************************)
C24_Turn ==
    LET d  == unwrap(dfa)
        ap == AcceptedPrefixes(d, Prefix(source, current_state.count))
    IN  IF current_state'.tag = "More"
        THEN /\ reader < Len(source)
             /\ reader' = reader + 1
             /\ current_state'.count = current_state.count + 1
        ELSE /\ \/ reader = Len(source)
                \/ Reach(d, source, current_state.count + 1) = {}
             /\ IF ap # {}
                THEN current_state'.tag = "Accept" /\ current_state'.count = Max(ap)
                ELSE current_state' = Reject

C24_MatcherTerminates ==
    /\ <>(mode = "matched")
    /\ [](pulls <= Len(source) + 1)
    /\ []((mode = "matching" /\ current_state.tag = "More") =>
              (current_state.count = pulls /\ reader = pulls))
    /\ [][pulls' = pulls + 1 => C24_Turn]_vars

\* "a+" on "aaa": three symbols consumed, the fourth pull finds the end.
C24_Witness ==
    /\ mode = "matched"
    /\ patterns = << <<AllAs, 1>> >>
    /\ source = <<1, 1, 1>>
    /\ pulls = 4
    /\ result = Some(3)

(***************************************************************************)
(* C25: the NDFA of to_ndfa is the union of the patterns.  On every word   *)
(* it reaches an accepting state if and only if some pattern matches the   *)
(* word, every output it reaches is the output of a pattern that matches   *)
(* the word, and the output of every pattern that matches the word is      *)
(* reached (no later pattern has erased or replaced it).                   *)
(***************************************************************************)
Words == { w \in Inputs : Len(w) <= MaxWord }

\* The outputs of the accepting states the NDFA reaches on w.
OutputsOn(nd, w) ==
    { unwrap(o) : o \in NdfaOutputs(nd, NdfaRun(nd, closure(nd, {0}), w, 1)) }

C25_AcceptsUnion ==
    mode = "ready" =>
        \A w \in Words :
            LET outs == OutputsOn(to_ndfa(patterns), w)
                W    == Accepting(patterns, w)
            IN  /\ outs # {} <=> W # {}
                /\ outs \subseteq { patterns[i][2] : i \in W }

C25_OutputsKept ==
    mode = "ready" =>
        \A w \in Words :
            \A i \in Accepting(patterns, w) :
                patterns[i][2] \in OutputsOn(to_ndfa(patterns), w)

C25_UnionOfPatterns == C25_AcceptsUnion /\ C25_OutputsKept

(***************************************************************************)
(* C26: the subset construction preserves the language.  For every NDFA    *)
(* in which the ranges leaving each single state are pairwise disjoint and *)
(* every word, the matcher following the DFA built from it is in an        *)
(* accepting state after a prefix if and only if the NDFA, started from    *)
(* the epsilon closure of state 0, reaches an accepting state on that      *)
(* prefix; DFA state 0 stands for the epsilon closure of NDFA state 0, and *)
(* no set of NDFA states is given two DFA states.                          *)
(***************************************************************************)
PerStateDisjoint(nd) ==
    \A st \in 1..Len(nd.trans) :
        \A i, j \in 1..Len(nd.trans[st]) :
            i # j => \/ nd.trans[st][i][2] < nd.trans[st][j][1]
                     \/ nd.trans[st][j][2] < nd.trans[st][i][1]

\* The DFA state the matcher is in after the symbols of w, if it gets that far.
RECURSIVE DfaRun(_, _, _, _)
DfaRun(d, q, w, i) ==
    IF i > Len(w) THEN Some(q)
    ELSE LET to == find_transition(d.trans[q + 1], w[i], 1, Len(d.trans[q + 1]))
         IN  IF is_some(to) THEN DfaRun(d, unwrap(to), w, i + 1) ELSE None

DfaAccepts(d, w) ==
    /\ is_some(DfaRun(d, 0, w, 1))
    /\ is_some(d.output[unwrap(DfaRun(d, 0, w, 1)) + 1])

\* From state 0: 1..3 to state 2 and an epsilon to state 1; from state 1:
\* 2..4 to the accepting state 3.  Each state has a single range.
Crossing ==
    set_output_symbol(
        add_transition(add_transition(add_epsilon(NewNdfa, 0, 1), 0, <<1, 3>>, 2),
                       1, <<2, 4>>, 3), 3, 0)

\* From state 0: 1..2 to the accepting state 1 and an epsilon to state 2; from
\* state 2: 1..2 to state 0.  Equal labels in different states.
Sharing ==
    set_output_symbol(
        add_transition(add_transition(add_epsilon(NewNdfa, 0, 2), 0, <<1, 2>>, 1),
                       2, <<1, 2>>, 0), 1, 1)

SubsetPreserves(nd) ==
    LET built == DfaCompiler_build(nd)
        d     == prepare_ndfa(nd)
    IN  /\ \A w \in Words :
              DfaAccepts(d, w) <=> OutputsOn(nd, w) # {}
        /\ built.sets[1] = closure(nd, {0})
        /\ \A a, b \in 1..Len(built.sets) : built.sets[a] = built.sets[b] => a = b

C26_SubsetConstruction ==
    /\ mode = "ready" => SubsetPreserves(to_ndfa(patterns))
    /\ (mode = "ready" /\ patterns = Tokenizer_new) =>
          \A nd \in { x \in {Crossing, Sharing} : PerStateDisjoint(x) } : SubsetPreserves(nd)

(***************************************************************************)
(* C27: the order in which the patterns were added does not matter.  For   *)
(* every tokenizer holding the same <<pattern, output>> pairs in another   *)
(* order, matches ends in the same Accept(length, output) or Reject and    *)
(* returns the same length, and every turn of from_tokenizer records the   *)
(* same token and moves to the same position.                              *)
(***************************************************************************)
Reordered(tk) ==
    { [i \in 1..Len(tk) |-> tk[f[i]]] :
        f \in { g \in [1..Len(tk) -> 1..Len(tk)] :
                  \A a, b \in 1..Len(tk) : g[a] = g[b] => a = b } }

C27_OrderIndependent ==
    /\ [] ( mode = "matched" =>
              \A tk \in Reordered(patterns) :
                  LET d == prepare_tokenizer(tk)
                  IN  /\ current_state = matches_loop(d, dfa_start(d), source, 0)
                      /\ result = matches_symbol_range(d, source) )
    /\ [][ mode = "tokenizing" =>
              \A tk \in Reordered(patterns) :
                  loop' = from_tokenizer_turn(prepare_tokenizer(tk), original, loop) ]_vars

(***************************************************************************)
(* C28: read_tokens_in_range is total.  For every returned stream and      *)
(* every range searched (empty, inverted, or past the end of the input)    *)
(* the indices it computes satisfy start_index <= end_index <=             *)
(* tokenized.len(), so the slice of tokens exists, and the reader returned *)
(* hands out exactly the tokens between the two indices.                   *)
(***************************************************************************)
C28_RangeQueryTotal ==
    query.op = "read_tokens_in_range" =>
        \E found \in binary_search_by_start(loop.tokens, query.range[1]) :
            LET start_index == find_token_index(loop.tokens, query.range[1], found).index
                end_index   == find_end_index(loop.tokens, start_index, query.range[2])
            IN  /\ 0 <= start_index
                /\ start_index <= end_index
                /\ end_index <= Len(loop.tokens)
                /\ Len(query.result) = end_index - start_index
                /\ \A i \in 1..Len(query.result) :
                      query.result[i] = token_at(loop.tokens, start_index + i - 1)

\* "12 42 13" searched with the inverted range 9..4, which starts past the end
\* of the input: both indices are 5 and no token is returned.
C28_Witness ==
    /\ patterns = DigitSpace
    /\ original = S1Input
    /\ Len(loop.tokens) = 5
    /\ query.op = "read_tokens_in_range"
    /\ query.range = <<9, 4>>
    /\ query.result = <<>>

(***************************************************************************)
(* C29: input_for_range(r) with r.start <= r.end <= original.len() returns *)
(* exactly the symbols of original at the offsets r.start..r.end, whatever *)
(* the tokens and gaps are (3..6 on "12 42 13" gives '4','2',' ');         *)
(* input_for_token(t) is input_for_range(t.location); and a range that is  *)
(* inverted or ends past original.len() panics at the call, it does not    *)
(* return a shorter slice.                                                 *)
(***************************************************************************)
C29_InputForRange ==
    /\ query.op = "input_for_range" =>
          LET start == query.range[1]
              end   == query.range[2]
          IN  IF start <= end /\ end <= Len(original)
              THEN /\ query.result.tag = "Return"
                   /\ Len(query.result.slice) = end - start
                   /\ \A i \in 1..(end - start) :
                         query.result.slice[i] = original[start + i]
              ELSE query.result = Panicked
    /\ query.op = "input_for_token" =>
          /\ query.result = input_for_range(original, query.token.location)
          /\ query.result.tag = "Return"
          /\ query.result.slice
                = [i \in 1..(query.token.location[2] - query.token.location[1]) |->
                      original[query.token.location[1] + i]]

\* 3..6 on "12 42 13" crosses the tokens 3..5 and 5..6.
C29_Witness ==
    /\ patterns = DigitSpace
    /\ original = S1Input
    /\ query.op = "input_for_range"
    /\ query.range = <<3, 6>>
    /\ query.result = Returned(<<4, 2, 0>>)

\* 0..3 on "ab" ends past the input, 2..1 is inverted: the call panics.
C29_PanicWitness ==
    /\ original = <<1, 2>>
    /\ query.op = "input_for_range"
    /\ query.range \in {<<0, 3>>, <<2, 1>>}
    /\ query.result = Panicked

=============================================================================
